---- MODULE Spec2Model ----
(***************************************************************************)
(* A model of the modconfigobj lexer: the rune cursor (next / backup), the *)
(* token buffer, the state functions (lexGeneric, lexKey, lexValue,        *)
(* lexQuotedValue, lexSection, lexComment) and the pull loop NextItem.     *)
(*                                                                         *)
(* A rune is a string; the source is a sequence of runes; the token buffer *)
(* and a token's Value are sequences of bytes.  Position, start and len    *)
(* count bytes.                                                            *)
(***************************************************************************)
EXTENDS Integers, Sequences, FiniteSets, TLC

VARIABLES
    input,          \* the runes of the source behind l.input (never changes)
    rd,             \* the number of runes l.input has handed out and not taken back
    tokenValBuffer, \* l.tokenValBuffer: the bytes of the lexeme in progress
    prevRuneSize,   \* l.prevRuneSize
    Position,       \* l.Position
    start,          \* l.start
    tokenStream,    \* l.tokenStream: the buffered channel, oldest token first
    state,          \* l.state: the name of the state function to run next, or "nil"
    out,            \* the tokens NextItem has returned so far, in order
    fault,          \* "none", or the fatal fault that ended the program
    stackArray,     \* printKVs: the array behind sectionStack (its length is cap)
    stackLen        \* printKVs: len(sectionStack)

vars == <<input, rd, tokenValBuffer, prevRuneSize, Position, start,
          tokenStream, state, out, fault, stackArray, stackLen>>

\* what printKVs owns
consumer == <<stackArray, stackLen>>

----------------------------------------------------------------------------
(* Bounds of the model.                                                    *)

MaxLen == 3         \* every source of at most MaxLen runes over Alphabet
MaxBody == 3        \* runes between the quotes of a generated quoted value
MaxName == 3        \* runes between the brackets of a generated header
MaxDepth == 3       \* longest run of '[' of a generated header
MaxLines == 2       \* lines of a generated well-formed file
MaxCursorLen == 3   \* runes of a source the cursor alone is driven over
MaxBuffer == 6      \* bytes in the token buffer beyond which the driver resets it
MaxStack == 3       \* longest run of '[' of a header handed to printKVs
MaxFairLen == 2     \* longest of the short sources checked for termination

----------------------------------------------------------------------------
(* Runes and bytes.                                                        *)

NL == "\n"
SP == " "
SQ == "'"
DQ == "\""
U2 == "u2"          \* a rune whose UTF-8 encoding has two bytes
U3 == "u3"          \* a rune whose UTF-8 encoding has three bytes
U4 == "u4"          \* a rune whose UTF-8 encoding has four bytes
NUL == "NUL"        \* the rune 0 that ReadRune returns with io.EOF

\* unicode.IsSpace on the runes of the model
IsSpace(r) == r \in {SP, NL}

\* the size ReadRune reports for a rune of the source
Width(r) == IF r = U2 THEN 2 ELSE IF r = U3 THEN 3 ELSE IF r = U4 THEN 4 ELSE 1

\* the bytes tokenValBuffer.WriteRune appends for a rune
Encode(r) ==
    IF r = U2 THEN <<"u2.0", "u2.1">>
    ELSE IF r = U3 THEN <<"u3.0", "u3.1", "u3.2">>
    ELSE IF r = U4 THEN <<"u4.0", "u4.1", "u4.2", "u4.3">>
    ELSE <<r>>

RECURSIVE SrcBytes(_)
\* the bytes of a sequence of runes of the source
SrcBytes(s) == IF s = <<>> THEN <<>> ELSE Encode(Head(s)) \o SrcBytes(Tail(s))

\* the item types
ItemError == "Error"
itemComment == "Comment"
ItemKeyword == "Keyword"
ItemValue == "Value"
ItemSection == "Section"
ItemEOF == "EOF"

\* the capacity of l.tokenStream
ChanCap == 3

----------------------------------------------------------------------------
(* The lexer as a record, so that the helpers compose as the code does.    *)
(* Every helper leaves the lexer alone once a fatal fault has happened.    *)

Lexer == [rd |-> rd, tokenValBuffer |-> tokenValBuffer,
          prevRuneSize |-> prevRuneSize, Position |-> Position,
          start |-> start, tokenStream |-> tokenStream, fault |-> fault]

\* l.input.ReadRune()
ReadRune(L) ==
    IF L.rd < Len(input)
    THEN [r |-> input[L.rd + 1], size |-> Width(input[L.rd + 1]), err |-> FALSE]
    ELSE [r |-> NUL, size |-> 0, err |-> TRUE]

resetTokenBuffer(L) ==
    IF L.fault # "none" THEN L
    ELSE [L EXCEPT !.start = L.Position, !.tokenValBuffer = <<>>]

\* emit with the byte length stored in Position and the offset in len
Token_FieldsSwapped(t, L) ==
    [TokenType |-> t, Position |-> L.Position - L.start, len |-> L.start,
     Value |-> L.tokenValBuffer]

Token(t, L) ==
    [TokenType |-> t, Position |-> L.start, len |-> L.Position - L.start,
     Value |-> L.tokenValBuffer]

\* emit that leaves start and the token buffer as they are
emit_KeepsStart(L, t) ==
    IF L.fault # "none" THEN L
    ELSE IF Len(L.tokenStream) >= ChanCap THEN [L EXCEPT !.fault = "deadlock"]
    ELSE [L EXCEPT !.tokenStream = Append(@, Token(t, L))]

\* a send on a full channel blocks the only goroutine there is
emit(L, t) ==
    IF L.fault # "none" THEN L
    ELSE IF Len(L.tokenStream) >= ChanCap THEN [L EXCEPT !.fault = "deadlock"]
    ELSE resetTokenBuffer([L EXCEPT !.tokenStream = Append(@, Token(t, L))])

consumeRune(L, r, n) ==
    [L EXCEPT !.Position = @ + n, !.tokenValBuffer = @ \o Encode(r)]

\* the lexer after next(), the rune and whether err # nil
next(L) ==
    IF L.fault # "none" THEN [L |-> L, r |-> NUL, err |-> TRUE]
    ELSE LET rr == ReadRune(L)
             M == [L EXCEPT !.rd = IF rr.err THEN @ ELSE @ + 1]
         IN  [L |-> [consumeRune(M, rr.r, rr.size) EXCEPT !.prevRuneSize = rr.size],
              r |-> rr.r, err |-> rr.err]

\* backup without the test of prevRuneSize
backup_NoGuard(L) ==
    IF L.fault # "none" THEN L
    ELSE [L EXCEPT
            !.rd = @ - 1,
            !.tokenValBuffer =
                SubSeq(@, 1, Len(@) - L.prevRuneSize),
            !.Position = @ - L.prevRuneSize,
            !.prevRuneSize = 0]

\* backup that truncates the buffer by one byte, whatever the rune's size
backup_TruncatesOneByte(L) ==
    IF L.fault # "none" THEN L
    ELSE IF L.prevRuneSize = 0 THEN [L EXCEPT !.fault = "backup"]
    ELSE IF Len(L.tokenValBuffer) < 1
         THEN [L EXCEPT !.fault = "truncate"]
    ELSE [L EXCEPT
            !.rd = @ - 1,
            !.tokenValBuffer = SubSeq(@, 1, Len(@) - 1),
            !.Position = @ - L.prevRuneSize,
            !.prevRuneSize = 0]

backup(L) ==
    IF L.fault # "none" THEN L
    ELSE IF L.prevRuneSize = 0 THEN [L EXCEPT !.fault = "backup"]
    ELSE IF Len(L.tokenValBuffer) < L.prevRuneSize
         THEN [L EXCEPT !.fault = "truncate"]
    ELSE [L EXCEPT
            !.rd = @ - 1,
            !.tokenValBuffer =
                SubSeq(@, 1, Len(@) - L.prevRuneSize),
            !.Position = @ - L.prevRuneSize,
            !.prevRuneSize = 0]

RECURSIVE skipWhitespace_BackupAtEOF(_)
\* skipWhitespace that puts the rune back whenever it is no white space,
\* without looking at err
skipWhitespace_BackupAtEOF(L) ==
    LET n == next(L)
    IN  IF n.err \/ ~IsSpace(n.r) THEN resetTokenBuffer(backup(n.L))
        ELSE skipWhitespace_BackupAtEOF(n.L)

RECURSIVE skipWhitespace(_)
skipWhitespace(L) ==
    LET n == next(L)
    IN  IF n.err THEN n.L
        ELSE IF ~IsSpace(n.r) THEN resetTokenBuffer(backup(n.L))
        ELSE skipWhitespace(n.L)

RECURSIVE takeRunesFrom(_, _, _, _)
\* the loop of takeRunes with i runes taken so far
takeRunesFrom(L, accept, max, i) ==
    IF i >= max THEN [L |-> L, taken |-> i, err |-> FALSE]
    ELSE LET n == next(L)
         IN  IF n.err THEN [L |-> n.L, taken |-> i, err |-> TRUE]
             ELSE IF n.r # accept
                  THEN [L |-> backup(n.L), taken |-> i, err |-> FALSE]
             ELSE takeRunesFrom(n.L, accept, max, i + 1)

takeRunes(L, accept, max) == takeRunesFrom(L, accept, max, 0)

RECURSIVE acceptRunFrom(_, _, _)
\* the loop of acceptRun with numRunes runes accepted so far
acceptRunFrom(L, accept, numRunes) ==
    LET n == next(L)
    IN  IF n.err THEN [L |-> n.L, numRunes |-> numRunes, err |-> TRUE]
        ELSE IF n.r # accept
             THEN [L |-> backup(n.L), numRunes |-> numRunes, err |-> FALSE]
        ELSE acceptRunFrom(n.L, accept, numRunes + 1)

acceptRun(L, accept) == acceptRunFrom(L, accept, 0)

----------------------------------------------------------------------------
(* The state functions: each yields the lexer it leaves and the next state.*)

Ret(L, st) == [L |-> L, st |-> st]

\* lexGeneric that names itself, not nil, as the state after EndOfStream
lexGeneric_ResumesAfterEOF(L0) ==
    LET L == resetTokenBuffer(skipWhitespace(L0))
        n == next(L)
    IN  IF n.err THEN Ret(emit(resetTokenBuffer(n.L), ItemEOF), "lexGeneric")
        ELSE IF n.r = "[" THEN Ret(backup(n.L), "lexSection")
        ELSE IF n.r = "#" THEN Ret(backup(n.L), "lexComment")
        ELSE IF n.r = NL THEN Ret(n.L, "lexGeneric")
        ELSE IF n.r = "=" THEN Ret(emit(n.L, ItemError), "lexGeneric")
        ELSE Ret(backup(n.L), "lexKey")

\* lexGeneric that drops a leading '=' without an Error token
lexGeneric_SilentEquals(L0) ==
    LET L == resetTokenBuffer(skipWhitespace(L0))
        n == next(L)
    IN  IF n.err THEN Ret(emit(resetTokenBuffer(n.L), ItemEOF), "nil")
        ELSE IF n.r = "[" THEN Ret(backup(n.L), "lexSection")
        ELSE IF n.r = "#" THEN Ret(backup(n.L), "lexComment")
        ELSE IF n.r = NL THEN Ret(n.L, "lexGeneric")
        ELSE IF n.r = "=" THEN Ret(n.L, "lexGeneric")
        ELSE Ret(backup(n.L), "lexKey")

\* lexGeneric that puts a stray '=' back and runs again instead of reporting it
lexGeneric_StuckOnEquals(L0) ==
    LET L == resetTokenBuffer(skipWhitespace(L0))
        n == next(L)
    IN  IF n.err THEN Ret(emit(resetTokenBuffer(n.L), ItemEOF), "nil")
        ELSE IF n.r = "[" THEN Ret(backup(n.L), "lexSection")
        ELSE IF n.r = "#" THEN Ret(backup(n.L), "lexComment")
        ELSE IF n.r = NL THEN Ret(n.L, "lexGeneric")
        ELSE IF n.r = "=" THEN Ret(backup(n.L), "lexGeneric")
        ELSE Ret(backup(n.L), "lexKey")

lexGeneric(L0) ==
    LET L == resetTokenBuffer(skipWhitespace(L0))
        n == next(L)
    IN  IF n.err THEN Ret(emit(resetTokenBuffer(n.L), ItemEOF), "nil")
        ELSE IF n.r = "[" THEN Ret(backup(n.L), "lexSection")
        ELSE IF n.r = "#" THEN Ret(backup(n.L), "lexComment")
        ELSE IF n.r = NL THEN Ret(n.L, "lexGeneric")
        ELSE IF n.r = "=" THEN Ret(emit(n.L, ItemError), "lexGeneric")
        ELSE Ret(backup(n.L), "lexKey")

RECURSIVE lexKeyLoop_KeepsEquals(_)
\* the loop of lexKey without the backup() that takes '=' out of the Key
lexKeyLoop_KeepsEquals(L) ==
    LET n == next(L)
    IN  IF n.err THEN Ret(emit(emit(n.L, ItemError), ItemEOF), "nil")
        ELSE IF n.r = NL THEN Ret(emit(n.L, ItemError), "lexGeneric")
        ELSE IF n.r = "="
             THEN IF n.L.Position - n.L.prevRuneSize = n.L.start
                  THEN Ret(emit(n.L, ItemError), "lexGeneric")
                  ELSE Ret(emit(n.L, ItemKeyword), "lexValue")
        ELSE lexKeyLoop_KeepsEquals(n.L)

RECURSIVE lexKeyLoop(_)
lexKeyLoop(L) ==
    LET n == next(L)
    IN  IF n.err THEN Ret(emit(emit(n.L, ItemError), ItemEOF), "nil")
        ELSE IF n.r = NL THEN Ret(emit(n.L, ItemError), "lexGeneric")
        ELSE IF n.r = "="
             THEN IF n.L.Position - n.L.prevRuneSize = n.L.start
                  THEN Ret(emit(n.L, ItemError), "lexGeneric")
                  ELSE Ret(next(emit(backup(n.L), ItemKeyword)).L, "lexValue")
        ELSE lexKeyLoop(n.L)

\* lexKey that goes back to lexGeneric, not on to lexValue, after a Key
lexKey_SkipsValueState(L) ==
    LET R == lexKeyLoop(resetTokenBuffer(L))
    IN  IF R.st = "lexValue" THEN Ret(R.L, "lexGeneric") ELSE R

lexKey(L) == lexKeyLoop(resetTokenBuffer(L))

RECURSIVE lexQuotedBody_ErrNotNil(_, _, _)
\* the loop of lexQuotedValue with err != nil where the code has err != io.EOF
lexQuotedBody_ErrNotNil(L, quoteRune, numQuotes) ==
    LET t == takeRunes(L, quoteRune, numQuotes)
    IN  IF t.err THEN Ret(emit(emit(t.L, ItemError), ItemEOF), "nil")
        ELSE IF t.taken = numQuotes THEN Ret(emit(t.L, ItemValue), "lexGeneric")
        ELSE LET n == next(t.L)
             IN  IF n.err
                 THEN Ret(emit(emit(n.L, ItemError), ItemEOF), "nil")
                 ELSE lexQuotedBody_ErrNotNil(n.L, quoteRune, numQuotes)

RECURSIVE lexQuotedBody(_, _, _)
\* the loop of lexQuotedValue for an opening run of numQuotes quotes
lexQuotedBody(L, quoteRune, numQuotes) ==
    LET t == takeRunes(L, quoteRune, numQuotes)
    IN  IF t.err THEN Ret(emit(emit(t.L, ItemError), ItemEOF), "nil")
        ELSE IF t.taken = numQuotes THEN Ret(emit(t.L, ItemValue), "lexGeneric")
        ELSE LET n == next(t.L)
             IN  IF ~n.err      \* err != io.EOF
                 THEN Ret(emit(emit(n.L, ItemError), ItemEOF), "nil")
                 ELSE lexQuotedBody(n.L, quoteRune, numQuotes)

\* lexQuotedValue that takes a run of two quotes for an empty quoted value
lexQuotedValue_EmptyValue(quoteRune, L0) ==
    LET t == takeRunes(resetTokenBuffer(L0), quoteRune, 3)
    IN  IF t.err THEN Ret(emit(emit(t.L, ItemError), ItemEOF), "nil")
        ELSE IF t.taken \in {1, 3} THEN lexQuotedBody(t.L, quoteRune, t.taken)
        ELSE Ret(emit(t.L, ItemValue), "lexGeneric")

lexQuotedValue(quoteRune, L0) ==
    LET t == takeRunes(resetTokenBuffer(L0), quoteRune, 3)
    IN  IF t.err THEN Ret(emit(emit(t.L, ItemError), ItemEOF), "nil")
        ELSE IF t.taken \in {1, 3} THEN lexQuotedBody(t.L, quoteRune, t.taken)
        ELSE Ret(emit(t.L, ItemError), "lexGeneric")

RECURSIVE lexValueLoop(_)
lexValueLoop(L) ==
    LET n == next(L)
    IN  IF n.err THEN Ret(emit(emit(n.L, ItemValue), ItemEOF), "nil")
        ELSE IF n.r \in {DQ, SQ} /\ n.L.Position - n.L.prevRuneSize = n.L.start
             THEN lexQuotedValue(n.r, backup(n.L))
        ELSE IF n.r = NL
             THEN Ret(next(emit(backup(n.L), ItemValue)).L, "lexGeneric")
        ELSE lexValueLoop(n.L)

lexValue(L) == lexValueLoop(resetTokenBuffer(skipWhitespace(L)))

RECURSIVE lexCommentLoop(_)
\* the loop of lexComment, which reads l.input itself
lexCommentLoop(L) ==
    LET rr == ReadRune(L)
    IN  IF L.fault # "none" THEN Ret(L, "nil")
        ELSE IF rr.err
        THEN Ret(emit(IF L.Position # L.start THEN emit(L, itemComment) ELSE L,
                      ItemEOF), "nil")
        ELSE IF rr.r = NL
        THEN LET M == [L EXCEPT !.rd = @ + 1]
                 E == IF M.Position # M.start THEN emit(M, itemComment) ELSE M
             IN  Ret([E EXCEPT !.Position = @ + rr.size], "lexGeneric")
        ELSE lexCommentLoop(consumeRune([L EXCEPT !.rd = @ + 1], rr.r, rr.size))

lexComment(L) == lexCommentLoop([L EXCEPT !.start = L.Position])

RECURSIVE lexSectionLoop_NewlineInName(_, _)
\* the loop of lexSection without the test for '\n'
lexSectionLoop_NewlineInName(L, sectionDepth) ==
    LET t == takeRunes(L, "]", sectionDepth)
    IN  IF t.err THEN Ret(emit(emit(t.L, ItemError), ItemEOF), "nil")
        ELSE IF t.taken = sectionDepth THEN Ret(emit(t.L, ItemSection), "lexGeneric")
        ELSE LET n == next(t.L)
             IN  IF n.err THEN Ret(emit(emit(n.L, ItemError), ItemEOF), "nil")
                 ELSE lexSectionLoop_NewlineInName(n.L, sectionDepth)

RECURSIVE lexSectionLoop(_, _)
\* the loop of lexSection for an opening run of sectionDepth brackets
lexSectionLoop(L, sectionDepth) ==
    LET t == takeRunes(L, "]", sectionDepth)
    IN  IF t.err THEN Ret(emit(emit(t.L, ItemError), ItemEOF), "nil")
        ELSE IF t.taken = sectionDepth THEN Ret(emit(t.L, ItemSection), "lexGeneric")
        ELSE LET n == next(t.L)
             IN  IF n.err THEN Ret(emit(emit(n.L, ItemError), ItemEOF), "nil")
                 ELSE IF n.r = NL THEN Ret(emit(n.L, ItemError), "lexGeneric")
                 ELSE lexSectionLoop(n.L, sectionDepth)

\* lexSection that closes the header at the first ']', whatever the depth
lexSection_SingleClose(L0) ==
    LET a == acceptRun(resetTokenBuffer(L0), "[")
    IN  IF a.numRunes = 0 \/ a.err THEN Ret(emit(a.L, ItemError), "lexGeneric")
        ELSE lexSectionLoop(a.L, 1)

lexSection(L0) ==
    LET a == acceptRun(resetTokenBuffer(L0), "[")
    IN  IF a.numRunes = 0 \/ a.err THEN Ret(emit(a.L, ItemError), "lexGeneric")
        ELSE lexSectionLoop(a.L, a.numRunes)

----------------------------------------------------------------------------
(* The sources the lexer is run on.                                        *)

Strings(A, n) == UNION {[1..k -> A] : k \in 0..n}

Rep(r, n) == [i \in 1..n |-> r]

Alphabet == {"[", "]", "=", "#", NL, SP, SQ, DQ, "a", U2}

\* every source of at most MaxLen runes
ShortInputs == Strings(Alphabet, MaxLen)

\* what follows a generated statement
Tails == {<<>>, <<NL>>, <<NL, "b", "=", "c", NL>>}

\* key = <quotes> body <quotes>, well formed or not
QuotedInputs ==
    {lead \o Rep(q, n) \o body \o Rep(q, m) \o tail :
        lead \in {<<"k", "=">>, <<"k", SP, "=", SP>>},
        q \in {SQ, DQ}, n \in 1..4, m \in 0..3,
        body \in Strings({"a", NL, U2}, MaxBody), tail \in Tails}

\* <brackets> name <brackets>
SectionInputs ==
    {lead \o Rep("[", n) \o name \o Rep("]", n) \o tail :
        lead \in {<<>>, <<NL>>, <<SP>>},
        n \in 1..MaxDepth,
        name \in Strings({"a", "[", "]", NL, SP}, MaxName), tail \in Tails}

\* the test's file and the sources the documentation walks through
SimpleFile ==
    <<NL, "[", "s", "e", "c", "t", "i", "o", "n", "]", NL,
      "k", "e", "y", SP, "=", SP, "v", "a", "l", "u", "e", NL>>

Scenarios ==
    { SimpleFile, Tail(SimpleFile),
      <<"k", "e", "y", "=", "v", "a", "l", "u", "e", NL>>,
      <<"=", "o", "o", "p", "s", NL>>,
      <<"[", "[", "s", "u", "b", "]", "]", NL>>,
      <<"k", "e", "y", SP, "=", SP, SQ, SQ, SQ, "m", "u", "l", "t", "i", NL,
        "l", "i", "n", "e", SQ, SQ, SQ, NL>>,
      <<"k", "e", "y", SP, "=", SP, SQ, "a", "b", "c", NL>>,
      <<"#", "c", NL, "a", SP, "=", NL, "b", SP, "=", SP, "1", NL>> }

\* the lines of a well-formed file: section headers and bare key = value
\* (a line is a record: a header, or a key, the white space after '=' and
\* a value)
SectionLines ==
    {[header |-> h, key |-> <<>>, sep |-> <<>>, value |-> <<>>] :
        h \in {<<"[", "s", "]">>, <<"[", "[", "s", "]", "]">>}}

KeyValueLines ==
    {[header |-> <<>>, key |-> <<"k">>, sep |-> <<>>, value |-> <<"v">>],
     [header |-> <<>>, key |-> <<"k", SP>>, sep |-> <<SP>>,
      value |-> <<"v", U2>>]}

LineSeqs == UNION {[1..k -> SectionLines \cup KeyValueLines] : k \in 0..MaxLines}

IsHeader(l) == l.header # <<>>

LineRunes(l) ==
    IF IsHeader(l) THEN l.header ELSE l.key \o <<"=">> \o l.sep \o l.value

RECURSIVE FileOf(_)
\* the source made of the lines ls, each ended by a newline
FileOf(ls) ==
    IF ls = <<>> THEN <<>> ELSE LineRunes(Head(ls)) \o <<NL>> \o FileOf(Tail(ls))

WellFormedInputs ==
    {lead \o FileOf(ls) : lead \in {<<>>, <<NL>>}, ls \in LineSeqs}

Inputs ==
    ShortInputs \cup QuotedInputs \cup SectionInputs \cup Scenarios
        \cup WellFormedInputs

----------------------------------------------------------------------------
(* NewLexer, and NextItem one step of its loop at a time.                  *)

Init ==
    /\ input \in Inputs
    /\ rd = 0
    /\ tokenValBuffer = <<>>
    /\ prevRuneSize = 0
    /\ Position = 0
    /\ start = 0
    /\ tokenStream = <<>>
    /\ state = "lexGeneric"
    /\ out = <<>>
    /\ fault = "none"
    /\ stackArray = <<>>
    /\ stackLen = 0

\* the default case of the select: l.state = l.state(l)
Run(R) ==
    /\ rd' = R.L.rd
    /\ tokenValBuffer' = R.L.tokenValBuffer
    /\ prevRuneSize' = R.L.prevRuneSize
    /\ Position' = R.L.Position
    /\ start' = R.L.start
    /\ tokenStream' = R.L.tokenStream
    /\ fault' = R.L.fault
    /\ state' = IF R.L.fault = "none" THEN R.st ELSE state
    /\ UNCHANGED <<input, out, consumer>>

\* a select that takes its default case whatever the queue holds
Idle_IgnoresQueue(st) == fault = "none" /\ state = st

Idle(st) == fault = "none" /\ tokenStream = <<>> /\ state = st

RunLexGeneric == Idle("lexGeneric") /\ Run(lexGeneric(Lexer))

RunLexKey == Idle("lexKey") /\ Run(lexKey(Lexer))

RunLexValue == Idle("lexValue") /\ Run(lexValue(Lexer))

RunLexSection == Idle("lexSection") /\ Run(lexSection(Lexer))

RunLexComment == Idle("lexComment") /\ Run(lexComment(Lexer))

\* l.state is nil once EndOfStream was emitted: calling it is a fatal fault
RunNilState ==
    /\ Idle("nil")
    /\ fault' = "nil state"
    /\ UNCHANGED <<input, rd, tokenValBuffer, prevRuneSize, Position, start,
                   tokenStream, state, out, consumer>>

\* the receive case of the select: return the oldest token
NextItemReturn ==
    /\ fault = "none"
    /\ tokenStream # <<>>
    /\ out' = Append(out, Head(tokenStream))
    /\ tokenStream' = Tail(tokenStream)
    /\ UNCHANGED <<input, rd, tokenValBuffer, prevRuneSize, Position, start,
                   state, fault, consumer>>

Next ==
    \/ RunLexGeneric
    \/ RunLexKey
    \/ RunLexValue
    \/ RunLexSection
    \/ RunLexComment
    \/ RunNilState
    \/ NextItemReturn

Spec == Init /\ [][Next]_vars

StateNames == {"lexGeneric", "lexKey", "lexValue", "lexSection", "lexComment"}

\* the default case of the select seen from outside: with the queue empty
\* and a state to run, l.state(l) moves the cursor or replaces l.state; the
\* steps RunLexGeneric .. RunLexComment are the steps of Next that do so
RunState ==
    /\ fault = "none"
    /\ tokenStream = <<>>
    /\ state \in StateNames
    /\ rd' \in rd..Len(input)
    /\ state' \in StateNames \cup {"nil"}
    /\ (rd' # rd \/ state' # state)

\* the sources of the runs checked for termination: every short source, the
\* documented ones, and quoted values and headers the source ends in
FairInputs ==
    Strings(Alphabet, MaxFairLen) \cup Scenarios
    \cup {<<"k", "=">> \o Rep(q, n) \o body :
            q \in {SQ, DQ}, n \in {1, 3}, body \in Strings({"a", NL}, MaxFairLen)}
    \cup {Rep("[", n) \o name :
            n \in 1..2, name \in Strings({"a", NL, "]"}, MaxFairLen)}

FairInit ==
    /\ input \in FairInputs
    /\ rd = 0
    /\ tokenValBuffer = <<>>
    /\ prevRuneSize = 0
    /\ Position = 0
    /\ start = 0
    /\ tokenStream = <<>>
    /\ state = "lexGeneric"
    /\ out = <<>>
    /\ fault = "none"
    /\ stackArray = <<>>
    /\ stackLen = 0

\* NextItem's loop is never suspended: while the queue is empty the state
\* function is run, and a queued token is returned
FairSpec ==
    FairInit /\ [][Next]_vars /\ WF_<<rd, state>>(RunState) /\ WF_vars(NextItemReturn)

----------------------------------------------------------------------------
(* The rune cursor driven on its own: next, backup and resetTokenBuffer in *)
(* any order, over sources with runes of every encoded width.              *)

CursorInputs == Strings({"a", U2, U3, U4}, MaxCursorLen)

CursorInit ==
    /\ input \in CursorInputs
    /\ rd = 0
    /\ tokenValBuffer = <<>>
    /\ prevRuneSize = 0
    /\ Position = 0
    /\ start = 0
    /\ tokenStream = <<>>
    /\ state = "lexGeneric"
    /\ out = <<>>
    /\ fault = "none"
    /\ stackArray = <<>>
    /\ stackLen = 0

\* the lexer a helper leaves
Becomes(L) ==
    /\ rd' = L.rd
    /\ tokenValBuffer' = L.tokenValBuffer
    /\ prevRuneSize' = L.prevRuneSize
    /\ Position' = L.Position
    /\ start' = L.start
    /\ tokenStream' = L.tokenStream
    /\ fault' = L.fault
    /\ UNCHANGED <<input, state, out, consumer>>

CallNext ==
    /\ fault = "none"
    /\ Len(tokenValBuffer) < MaxBuffer
    /\ Becomes(next(Lexer).L)

CallBackup == fault = "none" /\ Becomes(backup(Lexer))

CallResetTokenBuffer ==
    /\ fault = "none"
    /\ tokenValBuffer # <<>>
    /\ Becomes(resetTokenBuffer(Lexer))

CursorNext ==
    \/ CallNext
    \/ CallBackup
    \/ CallResetTokenBuffer

CursorSpec == CursorInit /\ [][CursorNext]_vars

----------------------------------------------------------------------------
(* printKVs, the reader of the tokens, on the Section tokens it is handed. *)

\* the slice sectionStack: the first stackLen cells of its array
sectionStack == SubSeq(stackArray, 1, stackLen)

\* strings.TrimSpace on the bytes of a text
RECURSIVE TrimLeftSpace(_)
TrimLeftSpace(v) ==
    IF v # <<>> /\ IsSpace(Head(v)) THEN TrimLeftSpace(Tail(v)) ELSE v

RECURSIVE TrimRightSpace(_)
TrimRightSpace(v) ==
    IF v # <<>> /\ IsSpace(v[Len(v)])
    THEN TrimRightSpace(SubSeq(v, 1, Len(v) - 1)) ELSE v

TrimSpace(v) == TrimRightSpace(TrimLeftSpace(v))

\* the texts of the Section tokens handed to printKVs
SectionTexts ==
    {Rep("[", n) \o name \o Rep("]", n) :
        n \in 1..MaxStack, name \in {<<"a">>, <<SP, "b">>, <<"c">>}}

RECURSIVE LeadingBrackets(_)
\* the loop that counts the '[' a text starts with
LeadingBrackets(v) ==
    IF v # <<>> /\ Head(v) = "[" THEN 1 + LeadingBrackets(Tail(v)) ELSE 0

RECURSIVE TrimLeft(_, _)
\* strings.TrimLeft for a cutset of one character
TrimLeft(v, c) == IF v # <<>> /\ Head(v) = c THEN TrimLeft(Tail(v), c) ELSE v

RECURSIVE TrimRight(_, _)
\* strings.TrimRight for a cutset of one character
TrimRight(v, c) ==
    IF v # <<>> /\ v[Len(v)] = c
    THEN TrimRight(SubSeq(v, 1, Len(v) - 1), c) ELSE v

cleanSectionName(v) == TrimSpace(TrimLeft(TrimRight(v, "]"), "["))

\* the capacity append gives the new array when the old one is full
GrownCap(cap) == IF cap = 0 THEN 1 ELSE 2 * cap

\* the case ItemSection of printKVs for a token with the text v:
\* sectionStack = append(sectionStack[:depth], cleanSectionName)
ProcessSection(v) ==
    LET depth == LeadingBrackets(v) - 1
        cap == Len(stackArray)
    IN  /\ fault = "none"
        /\ IF depth < 0 \/ depth > cap
           THEN fault' = "slice bounds" /\ UNCHANGED consumer
           ELSE /\ fault' = "none"
                /\ stackLen' = depth + 1
                /\ stackArray' =
                      IF depth < cap
                      THEN [stackArray EXCEPT ![depth + 1] = cleanSectionName(v)]
                      ELSE [i \in 1..GrownCap(cap) |->
                              IF i <= depth THEN stackArray[i]
                              ELSE IF i = depth + 1 THEN cleanSectionName(v)
                              ELSE <<>>]
        /\ UNCHANGED <<input, rd, tokenValBuffer, prevRuneSize, Position,
                       start, tokenStream, state, out>>

PrintKVsSection == \E v \in SectionTexts : ProcessSection(v)

ConsumerInit ==
    /\ input = <<>>
    /\ rd = 0
    /\ tokenValBuffer = <<>>
    /\ prevRuneSize = 0
    /\ Position = 0
    /\ start = 0
    /\ tokenStream = <<>>
    /\ state = "lexGeneric"
    /\ out = <<>>
    /\ fault = "none"
    /\ stackArray = <<>>
    /\ stackLen = 0

ConsumerNext == PrintKVsSection

ConsumerSpec == ConsumerInit /\ [][ConsumerNext]_vars

----------------------------------------------------------------------------
(* What the claims speak about.                                            *)

\* every token emitted so far, in the order of emission
All == out \o tokenStream

Types(s) == [i \in DOMAIN s |-> s[i].TokenType]

\* the lexer has emitted EndOfStream and every token has been returned
Halted == state = "nil" /\ tokenStream = <<>>

\* the byte offset of the rune input[i]
Offset(i) == Len(SrcBytes(SubSeq(input, 1, i - 1)))

\* the bytes of the runes input[i..j]
Bytes(i, j) == SrcBytes(SubSeq(input, i, j))

RECURSIVE SkipSpaces(_)
\* the index of the first rune at or after input[i] that is no white space
SkipSpaces(i) ==
    IF i <= Len(input) /\ IsSpace(input[i]) THEN SkipSpaces(i + 1) ELSE i

\* where the value starts that lexValue is about to read
ValueAt == SkipSpaces(rd + 1)

----------------------------------------------------------------------------
\* C1: EndOfStream is emitted at most once and is the last token emitted;
\* a lexer that has stopped (l.state = nil) has emitted it; once NextItem has
\* returned it nothing is left to return, and a further pull ends in the
\* nil-state fault with the returned tokens unchanged, never in a token.
C1_OneEOFLast ==
    /\ \A i \in 1..Len(All) : All[i].TokenType = ItemEOF => i = Len(All)
    /\ state = "nil" => All # <<>> /\ All[Len(All)].TokenType = ItemEOF
    /\ (out # <<>> /\ out[Len(out)].TokenType = ItemEOF)
          => tokenStream = <<>> /\ state = "nil"
    /\ fault = "nil state"
          => out # <<>> /\ out[Len(out)].TokenType = ItemEOF

\* a pull after EndOfStream (returned behind two other tokens) was rejected
C1_Witness ==
    /\ fault = "nil state"
    /\ Len(out) >= 3
    /\ out[Len(out)].TokenType = ItemEOF

\* C2: the token emitted right after a Key is a Value or an Error, and
\* while the Key is the last token emitted the lexer is about to run
\* lexValue, so the next pull cannot return anything else.
C2_KeyThenValueOrError ==
    /\ \A i \in 1..Len(All) :
          (All[i].TokenType = ItemKeyword /\ i < Len(All))
             => All[i + 1].TokenType \in {ItemValue, ItemError}
    /\ (All # <<>> /\ All[Len(All)].TokenType = ItemKeyword)
          => state = "lexValue" /\ fault = "none"

\* a Key was returned and the pull after it returned an Error
C2_Witness ==
    \E i \in 1..Len(out) - 1 :
        out[i].TokenType = ItemKeyword /\ out[i + 1].TokenType = ItemError

\* C3: the text of every token emitted is the source bytes in
\* [Position, Position+len), and len is the byte length of the text.
C3_TextIsSource ==
    \A i \in 1..Len(All) :
        /\ Len(All[i].Value) = All[i].len
        /\ All[i].Value =
              SubSeq(SrcBytes(input), All[i].Position + 1,
                     All[i].Position + All[i].len)

\* C4: the Position fields of the tokens NextItem returns never decrease.
C4_PositionsNonDecreasing ==
    \A i \in 1..Len(out) : \A j \in i..Len(out) :
        out[i].Position <= out[j].Position

\* three tokens were returned, at three different positions
C4_Witness ==
    /\ Len(out) >= 3
    /\ out[1].Position < out[2].Position
    /\ out[2].Position < out[3].Position

\* C5: EndOfStream is emitted only when the source has been read to its end.
C5_EOFOnlyAtEndOfInput ==
    \A i \in 1..Len(All) : All[i].TokenType = ItemEOF => rd = Len(input)

----------------------------------------------------------------------------
(* Quoted values, as lexValue meets them.                                  *)

Quotes == {SQ, DQ}

\* input[i..j] holds the rune r and nothing else
AllAre(i, j, r) == j <= Len(input) /\ \A k \in i..j : input[k] = r

\* at input[i]: n quotes q, a body of b >= 1 runes without q (and, for
\* n = 1, without a newline), then n quotes q
WellQuoted(i, q, n, b) ==
    /\ b >= 1
    /\ AllAre(i, i + n - 1, q)
    /\ i + n + b - 1 <= Len(input)
    /\ \A k \in i + n..i + n + b - 1 :
          input[k] # q /\ (n = 1 => input[k] # NL)
    /\ AllAre(i + n + b, i + 2 * n + b - 1, q)

\* the token of type t whose lexeme is the runes input[i..j]
Lexeme(t, i, j) ==
    [TokenType |-> t, Position |-> Offset(i), len |-> Len(Bytes(i, j)),
     Value |-> Bytes(i, j)]

\* C6: when lexValue meets a well-formed quoted value (one or three quotes,
\* a non-empty body, the same quotes again) it emits exactly one token, the
\* Value whose text runs from the first opening quote to the last closing
\* quote, and hands over to lexGeneric.
C6_QuotedValueIsOneValue ==
    [][ \A q \in Quotes, n \in {1, 3}, b \in 1..Len(input) :
          (Idle("lexValue") /\ WellQuoted(ValueAt, q, n, b))
             => /\ tokenStream' =
                      <<Lexeme(ItemValue, ValueAt, ValueAt + 2 * n + b - 1)>>
                /\ state' = "lexGeneric" ]_vars

\* at input[i]: exactly one quote, then no closing quote before the newline
\* or the end of the source
OpenSingleQuote(i) ==
    /\ i <= Len(input)
    /\ input[i] \in Quotes
    /\ \E j \in i + 1..Len(input) + 1 :
          /\ j = Len(input) + 1 \/ input[j] = NL
          /\ \A k \in i + 1..j - 1 : input[k] # input[i]

\* C7: when lexValue meets a value opened by one quote whose body reaches a
\* newline or the end of the source before a closing quote, the first token
\* it emits is an Error, it emits no Value, and EndOfStream, if emitted,
\* comes after the Error.
C7_OpenQuoteIsError ==
    [][ (Idle("lexValue") /\ OpenSingleQuote(ValueAt))
          => /\ tokenStream' # <<>>
             /\ tokenStream'[1].TokenType = ItemError
             /\ \A i \in 1..Len(tokenStream') :
                   /\ tokenStream'[i].TokenType # ItemValue
                   /\ tokenStream'[i].TokenType = ItemEOF => i > 1 ]_vars

\* key = 'abc\n has been read to the end: Key, Error, EndOfStream
C7_Witness ==
    /\ input = <<"k", "e", "y", SP, "=", SP, SQ, "a", "b", "c", NL>>
    /\ Halted
    /\ Types(out) = <<ItemKeyword, ItemError, ItemEOF>>

\* at input[i]: a run of exactly two quotes
TwoQuotes(i) ==
    /\ i + 1 <= Len(input)
    /\ input[i] \in Quotes
    /\ input[i + 1] = input[i]
    /\ i + 2 <= Len(input) => input[i + 2] # input[i]

\* C8 as stated: on an opening run of exactly two quotes the value is an
\* Error token, never a Value, and the next state is lexGeneric.
C8_Stated ==
    [][ (Idle("lexValue") /\ TwoQuotes(ValueAt))
          => /\ tokenStream' # <<>>
             /\ tokenStream'[1].TokenType = ItemError
             /\ \A i \in 1..Len(tokenStream') :
                   tokenStream'[i].TokenType # ItemValue
             /\ state' = "lexGeneric" ]_vars

\* C8 amended: on an opening run of exactly two quotes the value is an Error
\* token, never a Value; the next state is lexGeneric when a rune follows
\* the run, and when the source ends with the run the Error is followed by
\* EndOfStream and the lexer stops.
C8_TwoQuotesIsError ==
    [][ (Idle("lexValue") /\ TwoQuotes(ValueAt))
          => IF ValueAt + 2 <= Len(input)
             THEN /\ Types(tokenStream') = <<ItemError>>
                  /\ state' = "lexGeneric"
             ELSE /\ Types(tokenStream') = <<ItemError, ItemEOF>>
                  /\ state' = "nil" ]_vars

\* k = "" followed by a newline: the Error was returned, lexGeneric is next
C8_Witness ==
    /\ input = <<"k", SP, "=", SP, DQ, DQ, NL>>
    /\ Types(out) = <<ItemKeyword, ItemError>>
    /\ state = "lexGeneric"

----------------------------------------------------------------------------
(* Section headers, as lexSection meets them.                              *)

\* name (the runes input[i..j]) has no newline and no run of n ']'
PlainName(i, j, n) ==
    /\ \A k \in i..j : input[k] # NL
    /\ \A k \in i..j - n + 1 : \E m \in k..k + n - 1 : input[m] # "]"

\* at input[i]: n '[', a name of c runes, n ']', then the end of the line
Header(i, n, c) ==
    /\ n >= 1
    /\ AllAre(i, i + n - 1, "[")
    /\ i + 2 * n + c - 1 <= Len(input)
    /\ PlainName(i + n, i + n + c - 1, n)
    /\ AllAre(i + n + c, i + 2 * n + c - 1, "]")
    /\ i + 2 * n + c <= Len(input) => input[i + 2 * n + c] = NL

\* the name of such a header neither starts with '[' nor ends with ']'
NameKeepsBrackets(i, n, c) ==
    c >= 1 => input[i + n] # "[" /\ input[i + n + c - 1] # "]"

\* C9 as stated: on a header of n '[', a name without a newline or a run of
\* n ']', and n ']', lexSection emits exactly one token, the Section at the
\* first '[' whose text is the whole header, and hands over to lexGeneric.
C9_Stated ==
    [][ \A n \in 1..Len(input), c \in 0..Len(input) :
          (Idle("lexSection") /\ Header(rd + 1, n, c))
             => /\ tokenStream' =
                      <<Lexeme(ItemSection, rd + 1, rd + 2 * n + c)>>
                /\ state' = "lexGeneric" ]_vars

\* C9 amended: the same, for a name that neither starts with '[' nor ends
\* with ']'.
C9_HeaderIsOneSection ==
    [][ \A n \in 1..Len(input), c \in 0..Len(input) :
          (/\ Idle("lexSection")
           /\ Header(rd + 1, n, c)
           /\ NameKeepsBrackets(rd + 1, n, c))
             => /\ tokenStream' =
                      <<Lexeme(ItemSection, rd + 1, rd + 2 * n + c)>>
                /\ state' = "lexGeneric" ]_vars

\* [[sub]] has been read: one Section token with that text, then EndOfStream
C9_Witness ==
    /\ input = <<"[", "[", "s", "u", "b", "]", "]", NL>>
    /\ Halted
    /\ Types(out) = <<ItemSection, ItemEOF>>
    /\ out[1].Value = <<"[", "[", "s", "u", "b", "]", "]">>

----------------------------------------------------------------------------
(* The source =oops\n.                                                     *)

EqOops == <<"=", "o", "o", "p", "s", NL>>

\* C10 as stated: =oops\n yields one Error at 0, then EndOfStream.
C10_Stated ==
    (input = EqOops /\ Halted)
       => /\ Types(out) = <<ItemError, ItemEOF>>
          /\ out[1].Position = 0

\* C10 amended: =oops\n yields an Error at 0 for the '=', a second Error at
\* 1 for the key oops that meets the newline before any '=', and then
\* EndOfStream at 6.
C10_TwoErrorsThenEOF ==
    (input = EqOops /\ Halted)
       => /\ Types(out) = <<ItemError, ItemError, ItemEOF>>
          /\ out[1].Position = 0 /\ out[1].Value = <<"=">>
          /\ out[2].Position = 1 /\ out[2].Value = <<"o", "o", "p", "s", NL>>
          /\ out[3].Position = 6

\* =oops\n has been read to the end
C10_Witness == input = EqOops /\ Halted /\ Len(out) = 3

----------------------------------------------------------------------------
(* Well-formed files.                                                      *)

\* the type and text of a token, a Value's text trimmed as its reader does
Seen(t) ==
    [type |-> t.TokenType,
     text |-> IF t.TokenType = ItemValue THEN TrimSpace(t.Value) ELSE t.Value]

\* the tokens a line stands for
LineTokens(l) ==
    IF IsHeader(l) THEN <<[type |-> ItemSection, text |-> SrcBytes(l.header)]>>
    ELSE <<[type |-> ItemKeyword, text |-> SrcBytes(l.key)],
           [type |-> ItemValue, text |-> SrcBytes(l.value)]>>

RECURSIVE FileTokens(_)
FileTokens(ls) ==
    IF ls = <<>> THEN <<[type |-> ItemEOF, text |-> <<>>]>>
    ELSE LineTokens(Head(ls)) \o FileTokens(Tail(ls))

\* each generated well-formed file with the tokens it stands for
WellFormedCases ==
    {<<lead \o FileOf(ls), FileTokens(ls)>> :
        lead \in {<<>>, <<NL>>}, ls \in LineSeqs}
    \cup
    {<<f, <<[type |-> ItemSection,
              text |-> <<"[", "s", "e", "c", "t", "i", "o", "n", "]">>],
            [type |-> ItemKeyword, text |-> <<"k", "e", "y", SP>>],
            [type |-> ItemValue, text |-> <<"v", "a", "l", "u", "e">>],
            [type |-> ItemEOF, text |-> <<>>]>> >> :
        f \in {SimpleFile, Tail(SimpleFile)}}

\* C11: a well-formed file of section headers and bare key = value lines,
\* each ended by a newline, is returned as exactly one Section per header
\* (its text the header), one Key (the raw runes before '=') and one Value
\* (trimmed, the value) per key line, then EndOfStream, with no Error token.
C11_WellFormedFile ==
    Halted =>
        \A c \in WellFormedCases :
            input = c[1] => [i \in 1..Len(out) |-> Seen(out[i])] = c[2]

\* the test's file has been read to the end
C11_Witness == input = SimpleFile /\ Halted /\ Len(out) = 4

----------------------------------------------------------------------------
(* Newlines.                                                               *)

HasNewline(v) == \E k \in 1..Len(v) : v[k] = NL

\* the text opens with three quote characters of one kind
OpensWithThreeQuotes(v) ==
    Len(v) >= 3 /\ v[1] \in Quotes /\ v[2] = v[1] /\ v[3] = v[1]

\* C12: no Key, Section, Comment or Value token has a newline in its text,
\* but for a Value whose text opens with three quote characters.
C12_NewlineOnlyInTripleQuotes ==
    \A i \in 1..Len(All) :
        (/\ All[i].TokenType \in
               {ItemKeyword, ItemSection, itemComment, ItemValue}
         /\ HasNewline(All[i].Value))
           => All[i].TokenType = ItemValue /\ OpensWithThreeQuotes(All[i].Value)

\* a Comment, a Key and a bare Value came out of a source of three lines
C12_Witness ==
    /\ input = <<"#", "c", NL, "a", SP, "=", NL, "b", SP, "=", SP, "1", NL>>
    /\ Halted
    /\ Types(out) = <<itemComment, ItemKeyword, ItemValue, ItemEOF>>

\* at input[i]: exactly n '[', then the newline input[j] with no n
\* consecutive ']' before it
NewlineBeforeClose(i, n, j) ==
    /\ n >= 1
    /\ AllAre(i, i + n - 1, "[")
    /\ i + n <= j /\ j <= Len(input)
    /\ input[i + n] # "["
    /\ input[j] = NL
    /\ \A k \in i + n..j - 1 : input[k] # NL
    /\ \A k \in i + n..j - n : \E m \in k..k + n - 1 : input[m] # "]"

\* C13: when lexSection reads a newline before it has matched a closing run
\* of ']' as long as the opening run, it emits one token, the Error whose
\* lexeme runs from the first '[' to that newline, and no Section; the next
\* state is lexGeneric, which starts at the line after the newline.
C13_NewlineInHeaderIsError ==
    [][ \A n \in 1..Len(input), j \in 1..Len(input) :
          (Idle("lexSection") /\ NewlineBeforeClose(rd + 1, n, j))
             => /\ tokenStream' = <<Lexeme(ItemError, rd + 1, j)>>
                /\ state' = "lexGeneric"
                /\ rd' = j
                /\ fault' = "none" ]_vars

\* [a\na]\nb=c\n: an Error for the header, an Error for the line a], and
\* the last line still gives its Key and Value
C13_Witness ==
    /\ input = <<"[", "a", NL, "a", "]", NL, "b", "=", "c", NL>>
    /\ Halted
    /\ Types(out) = <<ItemError, ItemError, ItemKeyword, ItemValue, ItemEOF>>

----------------------------------------------------------------------------
(* The rune cursor.                                                        *)

\* C14: backup() with prevRuneSize = 0 (no rune read since the last
\* backup(), or since the lexer was created) ends in the fatal fault, with
\* no Error token emitted and with the source, Position, start and the token
\* buffer as they were.
C14_BackupWithoutNextIsFatal ==
    [][ (CallBackup /\ prevRuneSize = 0)
          => /\ fault' = "backup"
             /\ UNCHANGED <<rd, Position, start, tokenValBuffer, tokenStream,
                            out>> ]_vars

\* a second backup() in a row, two runes into the source
C14_Witness == fault = "backup" /\ rd >= 1 /\ Position >= 1

\* C16: a successful next() advances Position by the encoded width of the
\* rune and appends the rune's bytes to the token buffer; backup() right
\* after it gives back the Position, the token buffer and the source as they
\* were, leaves start alone, and does not fault.
C16_NextThenBackup ==
    (fault = "none" /\ rd < Len(input)) =>
        LET r == input[rd + 1]
            n == next(Lexer)
            b == backup(n.L)
        IN  /\ ~n.err /\ n.r = r
            /\ n.L.Position = Position + Len(Encode(r))
            /\ n.L.tokenValBuffer = tokenValBuffer \o Encode(r)
            /\ n.L.start = start
            /\ b.fault = "none"
            /\ b.Position = Position
            /\ b.tokenValBuffer = tokenValBuffer
            /\ b.rd = rd
            /\ b.start = start

\* after the rune a, a rune of four bytes was read and backed out
C16_Witness ==
    /\ Len(input) >= 2 /\ input[1] = "a" /\ input[2] = U4
    /\ rd = 1 /\ prevRuneSize = 0
    /\ Position = 1 /\ tokenValBuffer = <<"a">>
    /\ fault = "none"

----------------------------------------------------------------------------
(* The section stack of printKVs.                                          *)

\* C15: a Section token with d+1 leading '[' leaves, without a fault, a
\* stack of exactly d+1 entries: the d sections that enclosed it before, in
\* their places, and its trimmed name last.
C15_StackFollowsNesting ==
    [][ \A v \in SectionTexts :
          ProcessSection(v) =>
             LET d == LeadingBrackets(v) - 1
             IN  /\ fault' = "none"
                 /\ stackLen' = d + 1
                 /\ sectionStack'[d + 1] = cleanSectionName(v)
                 /\ d <= stackLen
                 /\ \A k \in 1..d : sectionStack'[k] = sectionStack[k] ]_vars

----------------------------------------------------------------------------
(* Termination.                                                            *)

\* one call l.state(l)
StateStep ==
    RunLexGeneric \/ RunLexKey \/ RunLexValue \/ RunLexSection \/ RunLexComment

EmittedEOF == \E i \in DOMAIN tokenStream : tokenStream[i].TokenType = ItemEOF

ReturnedEOF == \E i \in DOMAIN out : out[i].TokenType = ItemEOF

\* l.state(l) for the state function named st
CallState(st, L) ==
    CASE st = "lexGeneric" -> lexGeneric(L)
      [] st = "lexKey" -> lexKey(L)
      [] st = "lexValue" -> lexValue(L)
      [] st = "lexSection" -> lexSection(L)
      [] st = "lexComment" -> lexComment(L)

\* the state function NextItem is about to run does not leave the lexer
\* where it is: it moves the cursor or replaces l.state
StateMoves ==
    (fault = "none" /\ tokenStream = <<>> /\ state \in StateNames) =>
        LET R == CallState(state, Lexer)
        IN  R.L.fault = "none" /\ (R.L.rd > rd \/ R.st # state)

\* C17: every call of a state function emits EndOfStream, or reads at least
\* one rune, or is lexGeneric handing over to lexKey, lexSection or
\* lexComment, each of which reads at least one rune or emits EndOfStream;
\* every pending NextItem returns a token, and EndOfStream is eventually
\* returned.
C17_EndOfStreamIsReturned ==
    /\ []StateMoves
    /\ [][ StateStep => RunState ]_vars
    /\ [][ StateStep =>
              \/ EmittedEOF'
              \/ rd' > rd
              \/ /\ state = "lexGeneric"
                 /\ state' \in {"lexKey", "lexSection", "lexComment"} ]_vars
    /\ [][ (StateStep /\ state # "lexGeneric") => (EmittedEOF' \/ rd' > rd) ]_vars
    /\ (fault = "none" /\ tokenStream = <<>> /\ state # "nil") ~> (tokenStream # <<>>)
    /\ <>ReturnedEOF

C17_Witness ==
    /\ ReturnedEOF
    /\ fault = "none"
    /\ input = <<"k", "=", SQ, SQ, SQ, "a", NL>>
    /\ Len(out) = 3

----------------------------------------------------------------------------
(* The queue, the cursor and the byte ranges.                              *)

\* C18: the queue never holds more than 2 of its 3 tokens and emit never
\* blocks: a state function runs only on an empty queue and leaves at most
\* 2 tokens in it.
C18_QueueNeverFills ==
    /\ Len(tokenStream) <= 2
    /\ Len(tokenStream) < ChanCap
    /\ fault # "deadlock"
    /\ (fault = "none" /\ tokenStream = <<>> /\ state \in StateNames) =>
          LET R == CallState(state, Lexer)
          IN  Len(R.L.tokenStream) <= 2 /\ R.L.fault # "deadlock"

C18_Witness == Len(tokenStream) = 2 /\ fault = "none" /\ state = "nil"

\* C19: no state function calls backup() while prevRuneSize is 0: the fault
\* "backup called before a call to next" is never raised, neither by the
\* state function that has run nor by the one NextItem runs next.
C19_NoBackupFault ==
    /\ fault # "backup"
    /\ (fault = "none" /\ tokenStream = <<>> /\ state \in StateNames) =>
          CallState(state, Lexer).L.fault # "backup"

\* lexGeneric has put back the first rune of a key and lexKey has read to
\* the end of input, where next() leaves prevRuneSize at 0
C19_Witness ==
    /\ fault = "none"
    /\ prevRuneSize = 0
    /\ rd = Len(input)
    /\ \E i \in DOMAIN All : All[i].TokenType = ItemKeyword

\* C20: every token has len >= 0, and each token starts at or after the
\* byte where the token emitted before it ends.
C20_RangesDoNotOverlap ==
    /\ start <= Position
    /\ \A i \in DOMAIN All : All[i].len >= 0
    /\ \A i \in 1..Len(All) - 1 :
          All[i + 1].Position >= All[i].Position + All[i].len

C20_Witness ==
    /\ Len(All) >= 3
    /\ \E i \in 1..Len(All) - 1 :
          /\ All[i].len > 0
          /\ All[i + 1].len > 0
          /\ All[i + 1].Position > All[i].Position + All[i].len

----------------------------------------------------------------------------
(* Empty values.                                                           *)

\* the newline that ends the line lexValue is on, when only white space
\* stands between the cursor and it (0 when there is none)
EmptyValueEnd ==
    LET ends == {j \in rd + 1..Len(input) :
                    /\ input[j] = NL
                    /\ \A k \in rd + 1..j - 1 : IsSpace(input[k]) /\ input[k] # NL}
    IN  IF ends = {} THEN 0 ELSE CHOOSE j \in ends : TRUE

\* C21: when '=' is followed only by white space up to the newline, lexValue
\* emits a Value that lies within the Key's own line; when a line follows,
\* it reads no further than that newline and hands the next line to
\* lexGeneric, so that the next line's key is lexed as a Key.
C21_ValueStaysOnItsLine ==
    [][ (RunLexValue /\ EmptyValueEnd # 0) =>
            /\ EmptyValueEnd < Len(input) =>
                  /\ rd' = EmptyValueEnd
                  /\ state' = "lexGeneric"
                  /\ Len(tokenStream') = 1
            /\ tokenStream' # <<>>
            /\ tokenStream'[1].TokenType = ItemValue
            /\ tokenStream'[1].Position + tokenStream'[1].len
                  <= Offset(EmptyValueEnd + 1) ]_vars

====
